---- MODULE Spec2Model ----
(***************************************************************************)
(* Weather-event training pipeline                                         *)
(* (Prototypes/engine/WeatherDetection/optimized_weather_training_         *)
(* pipeline.ipynb): audio normalisation, corpus loading, label encoding,   *)
(* spectrogram padding / resizing / channel replication, dataset split.    *)
(*                                                                         *)
(* Four specifications share the variables:                                *)
(*   SpecNormalize  load_and_pad_audio as a function of its arguments      *)
(*   Spec           the notebook run: load_audio_files, then the data      *)
(*                  preparation cell, then build_model                     *)
(*   SpecPrepare    the padding / prepare_spectrograms lines of the data   *)
(*                  preparation cell as a function of the list `audios`    *)
(*   SpecSplit      the train_test_split call as a function of its inputs  *)
(*                                                                         *)
(* Sizes that the notebook sets to 16000, 200, 260 are scaled down to the  *)
(* definitions RateScaled, HopScaled, MelsScaled, SideScaled; the code is  *)
(* arithmetic in them and does not depend on their magnitude.              *)
(***************************************************************************)
EXTENDS Integers, Sequences, FiniteSets, TLC

\* ------------------------------------------------------------------ bounds
MaxDuration == 2
MaxRate == 2
MaxLen == 4
MaxClasses == 2
MaxFiles == 3
MaxDim == 3
MaxAudios == 2
MaxSplit == 4

\* Scaled stand-ins for the configured sizes (see SC).
RateScaled == 2
HopScaled == 2
MelsScaled == 2
SideScaled == 2

\* ------------------------------------------------------------- configuration
\* The SC dictionary.  AUDIO_CLIP_DURATION and MODEL_INPUT_IMAGE_CHANNELS keep
\* their values; the sample rate, stride, mel count and image side are scaled.
SC ==
  [ AUDIO_CLIP_DURATION |-> 2,
    AUDIO_STRIDE |-> HopScaled,
    AUDIO_SAMPLE_RATE |-> RateScaled,
    AUDIO_MELS |-> MelsScaled,
    MODEL_INPUT_IMAGE_WIDTH |-> SideScaled,
    MODEL_INPUT_IMAGE_HEIGHT |-> SideScaled,
    MODEL_INPUT_IMAGE_CHANNELS |-> 3 ]

\* ------------------------------------------------------------------ helpers
Max(a, b) == IF a >= b THEN a ELSE b
Min(a, b) == IF a <= b THEN a ELSE b

\* All sequences over S of length at most n.
SeqsUpTo(S, n) == UNION { [1..k -> S] : k \in 0..n }

\* k zeros.
Zeros(k) == [i \in 1..k |-> 0]

\* np.pad(a, (before, after), "constant") on a 1-D array.
np_pad1(a, before, after) == Zeros(before) \o a \o Zeros(after)

\* a[start:stop] on a 1-D array, 0-based start, with Python's clipping of stop.
Slice(a, start, stop) ==
  LET hi == Min(stop, Len(a))
  IN  IF hi <= start THEN << >> ELSE [i \in 1..(hi - start) |-> a[start + i]]

\* ------------------------------------------------------ load_and_pad_audio
\* A file is [readable |-> FALSE] (librosa.load raises) or
\* [readable |-> TRUE, samples |-> the waveform librosa.load returns at the
\* requested sample rate].
librosa_load(file) ==
  IF file.readable THEN [kind |-> "ok", audio |-> file.samples]
  ELSE [kind |-> "raise"]

\* The mutant: the right pad is as long as the left pad.
PadOrTrim_shortpad(audio, required_samples) ==
  LET audio_length == Len(audio)
  IN  IF audio_length < required_samples
      THEN LET pad_length == (required_samples - audio_length) \div 2
           IN  np_pad1(audio, pad_length, pad_length)
      ELSE IF audio_length > required_samples
      THEN LET start == (audio_length - required_samples) \div 2
           IN  Slice(audio, start, start + required_samples)
      ELSE audio

\* The mutant: trimming keeps the head of the clip instead of its centre.
PadOrTrim_headtrim(audio, required_samples) ==
  LET audio_length == Len(audio)
  IN  IF audio_length < required_samples
      THEN LET pad_length == (required_samples - audio_length) \div 2
           IN  np_pad1(audio, pad_length, required_samples - audio_length - pad_length)
      ELSE IF audio_length > required_samples
      THEN Slice(audio, 0, required_samples)
      ELSE audio

\* The if / elif of load_and_pad_audio: pad both ends, trim around the centre,
\* or leave the waveform as it is.
PadOrTrim(audio, required_samples) ==
  LET audio_length == Len(audio)
  IN  IF audio_length < required_samples
      THEN LET pad_length == (required_samples - audio_length) \div 2
           IN  np_pad1(audio, pad_length, required_samples - audio_length - pad_length)
      ELSE IF audio_length > required_samples
      THEN LET start == (audio_length - required_samples) \div 2
           IN  Slice(audio, start, start + required_samples)
      ELSE audio

\* The mutant: the try / except is missing, so a load error propagates.
load_and_pad_audio_noexcept(file, duration, sr) ==
  LET loaded == librosa_load(file)
      required_samples == sr * duration
  IN  IF loaded.kind = "raise" THEN [kind |-> "raise"]
      ELSE [kind |-> "ok", audio |-> PadOrTrim(loaded.audio, required_samples), sr |-> sr]

\* load_and_pad_audio(file_path, duration, sr): [kind |-> "ok", audio, sr] for
\* `return audio, sr`, [kind |-> "none"] for `return None, None` (the except
\* branch).
load_and_pad_audio(file, duration, sr) ==
  LET loaded == librosa_load(file)
      required_samples == sr * duration
  IN  IF loaded.kind = "raise" THEN [kind |-> "none"]
      ELSE [kind |-> "ok", audio |-> PadOrTrim(loaded.audio, required_samples), sr |-> sr]

\* ------------------------------------------------------------ 2-D arrays
\* A 2-D array is a sequence of rows; shape = (Height, Width).
Height(m) == Len(m)
Width(m) == IF Len(m) = 0 THEN 0 ELSE Len(m[1])
Shape(m) == << Height(m), Width(m) >>

Range(s) == { s[i] : i \in 1..Len(s) }

\* max(...) over a non-empty set of numbers.
MaxOf(S) == CHOOSE x \in S : \A y \in S : y <= x

\* ------------------------------------------------------- the file system
\* Directory names, in lexicographic order; Rank is the position in that order.
ClassPool == << "rain", "thunder", "wind" >>
ClassNames == { ClassPool[i] : i \in 1..MaxClasses }
Rank(name) == CHOOSE i \in 1..Len(ClassPool) : ClassPool[i] = name

Unreadable == [readable |-> FALSE]

\* The waveform of a readable corpus file of n samples.
RawWaveform(n) == [i \in 1..n |-> IF i % 2 = 1 THEN 1 ELSE -1]

\* The raw length of the k-th file of the corpus when it is readable: files
\* shorter and longer than the clip alternate.
RawLength(k) ==
  IF k % 2 = 1 THEN 1 ELSE SC.AUDIO_SAMPLE_RATE * SC.AUDIO_CLIP_DURATION + 2

\* The files of a corpus, given which of them are readable.
CorpusFiles(readable) ==
  [ k \in 1..Len(readable) |->
      IF readable[k] THEN [readable |-> TRUE, samples |-> RawWaveform(RawLength(k))]
      ELSE Unreadable ]

\* os.listdir(path) of the corpus root, an entry per name: a class directory
\* with the listing of its files, or a plain file.
StrayFile == [name |-> "notes.txt", isdir |-> FALSE, files |-> << >>]

\* The class directories named `names`, in that order, holding the files of
\* `flat` cut at the positions `cuts`.
ClassDirs(names, flat, cuts) ==
  [ j \in 1..Len(names) |->
      [ name |-> names[j], isdir |-> TRUE,
        files |-> Slice(flat, IF j = 1 THEN 0 ELSE cuts[j - 1], cuts[j]) ] ]

\* The corpus roots: up to MaxClasses class directories in any listing order,
\* up to MaxFiles files in all, any of them unreadable, and possibly a plain
\* file beside the directories.
Roots ==
  { (IF stray THEN << StrayFile >> ELSE << >>) \o ClassDirs(x[1], CorpusFiles(x[2]), x[3]) :
      stray \in BOOLEAN,
      x \in { y \in UNION { [1..k -> ClassNames] \X SeqsUpTo(BOOLEAN, MaxFiles)
                              \X [1..k -> 0..MaxFiles] : k \in 0..MaxClasses } :
                /\ \A i, j \in DOMAIN y[1] : i # j => y[1][i] # y[1][j]
                /\ \A i, j \in DOMAIN y[3] : i <= j => y[3][i] <= y[3][j]
                /\ IF Len(y[1]) = 0 THEN Len(y[2]) = 0
                   ELSE y[3][Len(y[1])] = Len(y[2]) } }

\* os.listdir(os.path.join(path, label)).
ListClassDir(r, label) ==
  (CHOOSE e \in Range(r) : e.name = label /\ e.isdir).files

\* ------------------------------------------------- spectrogram extraction
Sample(audio, i) == IF i \in 1..Len(audio) THEN audio[i] ELSE 0

\* librosa.feature.melspectrogram followed by librosa.power_to_db.  The shape
\* is the library's: n_mels rows and 1 + len(y) // hop_length frames.  The
\* values stand for the library's spectral values: a fixed function of the
\* waveform, band and frame.
log_mel_spectrogram(audio) ==
  [ m \in 1..SC.AUDIO_MELS |->
      [ t \in 1..(1 + Len(audio) \div SC.AUDIO_STRIDE) |->
          m * (1 + Sample(audio, (t - 1) * SC.AUDIO_STRIDE + 1)
                     * Sample(audio, (t - 1) * SC.AUDIO_STRIDE + 1)) ] ]

\* ---------------------------------------------------------- label encoding
\* np.unique: the distinct labels in sorted order (LabelEncoder.classes_).
SortedUnique(ls) ==
  LET S == Range(ls)
  IN  [ k \in 1..Cardinality(S) |->
          CHOOSE x \in S : Cardinality({ y \in S : Rank(y) < Rank(x) }) = k - 1 ]

\* 0-based position of x in the sequence s.
IndexOf(s, x) == (CHOOSE i \in 1..Len(s) : s[i] = x) - 1

\* The mutant: labels are numbered in order of first appearance.
fit_transform_firstseen(ls) ==
  [ i \in 1..Len(ls) |->
      LET first == CHOOSE m \in 1..i : ls[m] = ls[i] /\ \A q \in 1..(m - 1) : ls[q] # ls[i]
      IN  Cardinality({ ls[q] : q \in 1..(first - 1) }) ]

\* LabelEncoder().fit_transform(labels): 0-based index into classes_.
fit_transform(ls) ==
  LET classes_ == SortedUnique(ls)
  IN  [ i \in 1..Len(ls) |-> IndexOf(classes_, ls[i]) ]

\* to_categorical(y) for a non-empty y: num_classes = max(y) + 1, one row per
\* entry with a 1 at (0-based) column y[i].
to_categorical(y) ==
  LET num_classes == MaxOf(Range(y)) + 1
  IN  [ i \in 1..Len(y) |-> [ j \in 1..num_classes |-> IF j - 1 = y[i] THEN 1 ELSE 0 ] ]

\* ------------------------------------------------- padding and resizing
\* np.pad(a, ((0, bottom), (0, right)), 'constant') on a 2-D array.
np_pad2_topleft(a, bottom, right) ==
  [ r \in 1..(Height(a) + bottom) |->
      [ c \in 1..(Width(a) + right) |->
          IF r > bottom /\ c > right THEN a[r - bottom][c - right] ELSE 0 ] ]

np_pad2(a, bottom, right) ==
  [ r \in 1..(Height(a) + bottom) |->
      [ c \in 1..(Width(a) + right) |->
          IF r <= Height(a) /\ c <= Width(a) THEN a[r][c] ELSE 0 ] ]

\* The source coordinate of output index o (0-based) along an axis resized from
\* in_size to out_size, with half-pixel centres: (o + 0.5) * in/out - 0.5, as
\* the numerator of a fraction with denominator 2 * out_size.
SrcNum(o, in_size, out_size) == (2 * o + 1) * in_size - out_size

\* The lower and upper source indices (0-based, clamped) and the interpolation
\* weight (numerator over 2 * out_size) of output index o.
Lower(o, in_size, out_size) ==
  Max(SrcNum(o, in_size, out_size) \div (2 * out_size), 0)
Upper(o, in_size, out_size) ==
  Min(-((-SrcNum(o, in_size, out_size)) \div (2 * out_size)), in_size - 1)
Lerp(o, in_size, out_size) ==
  SrcNum(o, in_size, out_size)
    - (SrcNum(o, in_size, out_size) \div (2 * out_size)) * (2 * out_size)

\* tf.image.resize(spect[:, :, np.newaxis], size, method='bilinear'): an array
\* of shape (size[1], size[2], 1).  A value is held exactly, as the numerator
\* of a fraction with denominator 4 * size[1] * size[2].
tf_image_resize(spect, size) ==
  LET in_h == Height(spect)
      in_w == Width(spect)
      dy == 2 * size[1]
      dx == 2 * size[2]
  IN  [ y \in 1..size[1] |->
        [ x \in 1..size[2] |->
          LET y0 == Lower(y - 1, in_h, size[1]) + 1
              y1 == Upper(y - 1, in_h, size[1]) + 1
              x0 == Lower(x - 1, in_w, size[2]) + 1
              x1 == Upper(x - 1, in_w, size[2]) + 1
              ly == Lerp(y - 1, in_h, size[1])
              lx == Lerp(x - 1, in_w, size[2])
              top == spect[y0][x0] * (dx - lx) + spect[y0][x1] * lx
              bottom == spect[y1][x0] * (dx - lx) + spect[y1][x1] * lx
          IN  << top * (dy - ly) + bottom * ly >> ] ]

\* np.repeat(a, n, axis=3) on one image: every entry of the last axis n times.
np_repeat(img, n) ==
  [ y \in 1..Len(img) |->
      [ x \in 1..Len(img[y]) |->
          [ k \in 1..(Len(img[y][x]) * n) |-> img[y][x][((k - 1) \div n) + 1] ] ] ]

\* The default of prepare_spectrograms' target_size and the repeat count.
TargetSizeDefault == << SideScaled, SideScaled >>
RepeatCount == 3

\* The mutant: the channel replication is left out.
prepare_spectrograms_norepeat(spectrograms, target_size) ==
  [ i \in 1..Len(spectrograms) |-> tf_image_resize(spectrograms[i], target_size) ]

\* prepare_spectrograms(spectrograms, target_size).
prepare_spectrograms(spectrograms, target_size) ==
  LET resized_spectrograms ==
        [ i \in 1..Len(spectrograms) |-> tf_image_resize(spectrograms[i], target_size) ]
  IN  [ i \in 1..Len(spectrograms) |-> np_repeat(resized_spectrograms[i], RepeatCount) ]

\* The mutant: the matrices are padded on the top and left edges.
PadAll_topleft(as) ==
  LET max_length == MaxOf({ Width(as[i]) : i \in 1..Len(as) })
      max_height == MaxOf({ Height(as[i]) : i \in 1..Len(as) })
  IN  [ i \in 1..Len(as) |->
          np_pad2_topleft(as[i], max_height - Height(as[i]), max_length - Width(as[i])) ]

\* max_length, max_height and audios_padded of the data preparation cell, for
\* a non-empty list.
PadAll(as) ==
  LET max_length == MaxOf({ Width(as[i]) : i \in 1..Len(as) })
      max_height == MaxOf({ Height(as[i]) : i \in 1..Len(as) })
  IN  [ i \in 1..Len(as) |->
          np_pad2(as[i], max_height - Height(as[i]), max_length - Width(as[i])) ]

\* ------------------------------------------------------- train_test_split
\* test_size = 0.2 as a fraction; random_state.
test_size == << 2, 10 >>
random_state == 42
Seeds == { 7, random_state }

PermutationsOf(n) ==
  { p \in [1..n -> 1..n] : \A i, j \in 1..n : i # j => p[i] # p[j] }

\* The mutant: n_test is rounded down.
NumTest_floor(n) == (test_size[1] * n) \div test_size[2]

\* n_test = ceil(test_size * n), n_train = n - n_test.
NumTest(n) == (test_size[1] * n + test_size[2] - 1) \div test_size[2]
NumTrain(n) == n - NumTest(n)

\* The permutations RandomState(seed).permutation(n) may return: the one it
\* returned before for this seed, if any (a seeded generator repeats itself).
\* The mutant: the generator is not seeded.
SeededPermutations_unseeded(oracle, seed, n) == PermutationsOf(n)

SeededPermutations(oracle, seed, n) ==
  IF Len(oracle[seed]) = n /\ n > 0 THEN { oracle[seed] } ELSE PermutationsOf(n)

\* The mutant: the train part starts one position early and overlaps the test part.
SplitIndices_overlap(perm, n) ==
  [ test |-> Slice(perm, 0, NumTest(n)),
    train |-> Slice(perm, NumTest(n) - 1, NumTest(n) + NumTrain(n)) ]

\* The index arrays of the shuffle split: the first n_test entries of the
\* permutation are the test part, the next n_train the train part.
SplitIndices(perm, n) ==
  [ test |-> Slice(perm, 0, NumTest(n)),
    train |-> Slice(perm, NumTest(n), NumTest(n) + NumTrain(n)) ]

\* ---------------------------------------------------------------- training
\* Losses are counted in units of 0.00005, learning rates in units of 0.000001.
\* epochs = 100, ReduceLROnPlateau patience = 10 and EarlyStopping patience = 20,
\* scaled in the same order (patience_lr < patience_stop < epochs).
EpochsScaled == 7
PatienceLrScaled == 2
PatienceStopScaled == 4

\* The learning rate optimizer='adam' starts with (0.001).
AdamLearningRate == 1000
\* ReduceLROnPlateau: factor = 0.1 as a fraction, min_lr = 0.00001, and the
\* min_delta the constructor defaults to (0.0001).
factor == << 1, 10 >>
min_lr == 10
min_delta == 2
\* EarlyStopping: the min_delta the constructor defaults to.
es_min_delta == 0

\* What one epoch may report: the training loss and the evaluation loss. The
\* evaluation losses lie apart by less than, exactly, and more than min_delta.
ValLosses == { 0, 1, 3 }
EpochLogs ==
  { [loss |-> 5, val_loss |-> 3], [loss |-> 4, val_loss |-> 3],
    [loss |-> 4, val_loss |-> 1], [loss |-> 2, val_loss |-> 0] }
NoLogs == [loss |-> 0, val_loss |-> 0]

\* np.Inf, the best value of a callback that has seen no epoch: above every
\* loss by more than min_delta.
Inf == MaxOf(ValLosses) + min_delta + 1

\* The mutant: the checkpoint also counts an equal loss as an improvement.
ModelCheckpointImproved_orequal(current, best) == current <= best

\* ModelCheckpoint, mode='min': monitor_op is np.less.
ModelCheckpointImproved(current, best) == current < best

\* ModelCheckpoint.on_epoch_end with save_best_only=True: the model is saved
\* when the monitored value improved on the best one. saved_epoch names the
\* epoch the saved file's weights come from (0: no file).
ModelCheckpoint_on_epoch_end(cb, current, model_weights) ==
  IF ModelCheckpointImproved(current, cb.best)
  THEN [best |-> current, saved_weights |-> model_weights]
  ELSE cb

\* The mutant: the plateau callback compares without min_delta.
PlateauImproved_nodelta(current, best) == current < best

\* ReduceLROnPlateau, mode 'min': monitor_op is np.less(a, b - min_delta).
PlateauImproved(current, best) == current < best - min_delta

\* The reduced rate: max(old_lr * factor, min_lr).
ReducedLr(old_lr) == Max((old_lr * factor[1]) \div factor[2], min_lr)

\* The mutant: a plateau reduces the rate whatever it is, and without the floor.
ReduceLROnPlateau_nofloor(cb, current, old_lr, epoch_no) ==
  IF PlateauImproved(current, cb.best)
  THEN [cb |-> [best |-> current, wait |-> 0, best_epoch |-> epoch_no], lr |-> old_lr]
  ELSE IF cb.wait + 1 >= PatienceLrScaled
       THEN [cb |-> [cb EXCEPT !.wait = 0],
             lr |-> (old_lr * factor[1]) \div factor[2]]
       ELSE [cb |-> [cb EXCEPT !.wait = cb.wait + 1], lr |-> old_lr]

\* The mutant: the plateau counter restarts only on an improvement.
ReduceLROnPlateau_noreset(cb, current, old_lr, epoch_no) ==
  IF PlateauImproved(current, cb.best)
  THEN [cb |-> [best |-> current, wait |-> 0, best_epoch |-> epoch_no], lr |-> old_lr]
  ELSE IF cb.wait + 1 >= PatienceLrScaled
       THEN [cb |-> [cb EXCEPT !.wait = cb.wait + 1], lr |-> ReducedLr(old_lr)]
       ELSE [cb |-> [cb EXCEPT !.wait = cb.wait + 1], lr |-> old_lr]

\* ReduceLROnPlateau.on_epoch_end with cooldown = 0: an improvement restarts
\* the counter; otherwise the counter grows, and once it has reached patience
\* and the rate is above min_lr the rate is reduced and the counter restarts.
\* best_epoch is history: the epoch that set best.
ReduceLROnPlateau_on_epoch_end(cb, current, old_lr, epoch_no) ==
  IF PlateauImproved(current, cb.best)
  THEN [cb |-> [best |-> current, wait |-> 0, best_epoch |-> epoch_no], lr |-> old_lr]
  ELSE IF cb.wait + 1 >= PatienceLrScaled /\ old_lr > min_lr
       THEN [cb |-> [cb EXCEPT !.wait = 0], lr |-> ReducedLr(old_lr)]
       ELSE [cb |-> [cb EXCEPT !.wait = cb.wait + 1], lr |-> old_lr]

\* EarlyStopping, mode 'auto' on a loss: np.less(current - min_delta, best).
EarlyStoppingImproved(current, best) == current - es_min_delta < best

\* The mutant: on stopping, the weights of the last epoch are kept.
EarlyStopping_norestore(cb, current, model_weights, epoch_no) ==
  IF EarlyStoppingImproved(current, cb.best)
  THEN [cb |-> [cb EXCEPT !.best = current, !.wait = 0, !.best_epoch = epoch_no,
                          !.best_weights = model_weights],
        stop_training |-> FALSE, weights |-> model_weights]
  ELSE IF cb.wait + 1 >= PatienceStopScaled
       THEN [cb |-> [cb EXCEPT !.wait = cb.wait + 1, !.stopped_epoch = epoch_no],
             stop_training |-> TRUE, weights |-> model_weights]
       ELSE [cb |-> [cb EXCEPT !.wait = cb.wait + 1],
             stop_training |-> FALSE, weights |-> model_weights]

\* The mutant: training never stops early.
EarlyStopping_nostop(cb, current, model_weights, epoch_no) ==
  IF EarlyStoppingImproved(current, cb.best)
  THEN [cb |-> [cb EXCEPT !.best = current, !.wait = 0, !.best_epoch = epoch_no,
                          !.best_weights = model_weights],
        stop_training |-> FALSE, weights |-> model_weights]
  ELSE [cb |-> [cb EXCEPT !.wait = cb.wait + 1],
        stop_training |-> FALSE, weights |-> model_weights]

\* EarlyStopping.on_epoch_end with restore_best_weights=True: an improvement
\* restarts the counter and keeps the model's weights; otherwise the counter
\* grows, and once it has reached patience training is stopped and the model
\* gets the kept weights back.
EarlyStopping_on_epoch_end(cb, current, model_weights, epoch_no) ==
  IF EarlyStoppingImproved(current, cb.best)
  THEN [cb |-> [cb EXCEPT !.best = current, !.wait = 0, !.best_epoch = epoch_no,
                          !.best_weights = model_weights],
        stop_training |-> FALSE, weights |-> model_weights]
  ELSE IF cb.wait + 1 >= PatienceStopScaled
       THEN [cb |-> [cb EXCEPT !.wait = cb.wait + 1, !.stopped_epoch = epoch_no],
             stop_training |-> TRUE, weights |-> cb.best_weights]
       ELSE [cb |-> [cb EXCEPT !.wait = cb.wait + 1],
             stop_training |-> FALSE, weights |-> model_weights]

\* The mutant: the history keeps the last epoch only.
History_lastonly(h, epoch_no, epoch_logs) ==
  [epoch |-> << epoch_no >>,
   loss |-> << epoch_logs.loss >>,
   val_loss |-> << epoch_logs.val_loss >>]

\* History.on_epoch_end: the epoch and each logged value are appended.
History_on_epoch_end(h, epoch_no, epoch_logs) ==
  [epoch |-> Append(h.epoch, epoch_no),
   loss |-> Append(h.loss, epoch_logs.loss),
   val_loss |-> Append(h.val_loss, epoch_logs.val_loss)]

\* ---------------------------------------------------------------- variables
VARIABLES
  pc,                  \* position of the run
  raised,              \* "" or the call out of which an exception propagated
  call,                \* SpecNormalize: arguments of the load_and_pad_audio call
  ret,                 \* SpecNormalize: what the call returned
  root,                \* the listing of the corpus root
  ci, fi,              \* load_audio_files: class and file loop positions (1-based)
  audios, labels, class_labels,
  origin,              \* history: per appended sample, the directory and file read
  le_classes,          \* le.classes_
  labels_categorical,
  audios_padded, prepared_spectrograms,
  rng,                 \* per seed, the permutation the generator has returned (<< >>: none yet)
  split,               \* the index arrays behind X_train, X_test, y_train, y_test
  resplit,             \* SpecSplit: the index arrays of a second call
  model,               \* input_shape and num_classes given to build_model
  epoch,               \* fit: the number of the last epoch trained (0: none)
  logs,                \* fit: what that epoch reported
  lr,                  \* the optimizer's learning rate
  weights,             \* the model's weights, named by the epoch that trained them
  stop_training,       \* model.stop_training
  checkpoint_callback, reduce_lr_callback, early_stopping_callback,
  history              \* the History object fit returns

vars == << pc, raised, call, ret, root, ci, fi, audios, labels, class_labels,
           origin, le_classes, labels_categorical, audios_padded,
           prepared_spectrograms, rng, split, resplit, model,
           epoch, logs, lr, weights, stop_training,
           checkpoint_callback, reduce_lr_callback, early_stopping_callback,
           history >>

normVars == << call, ret >>
loadVars == << ci, fi, audios, labels, class_labels, origin >>
encVars == << le_classes, labels_categorical >>
prepVars == << audios_padded, prepared_spectrograms >>
splitVars == << rng, split, resplit >>
fitVars == << epoch, logs, lr, weights, stop_training >>
callbackVars == << checkpoint_callback, reduce_lr_callback, early_stopping_callback >>
trainVars == << fitVars, callbackVars, history >>

\* Variables a specification does not use, at rest.
IdleNormalize == call = [file |-> Unreadable, duration |-> 0, sr |-> 1]
                 /\ ret = [kind |-> "pending"]
IdleLoad == /\ root = << >>
            /\ ci = 1 /\ fi = 1
            /\ audios = << >> /\ labels = << >> /\ class_labels = << >>
            /\ origin = << >>
IdleEncode == le_classes = << >> /\ labels_categorical = << >>
IdlePrepare == audios_padded = << >> /\ prepared_spectrograms = << >>
NoSplit == [seed |-> 0, test |-> << >>, train |-> << >>]
IdleSplit == /\ rng = [s \in Seeds |-> << >>]
             /\ split = NoSplit
             /\ resplit = NoSplit
IdleModel == model = [input_shape |-> << >>, num_classes |-> 0]
\* The training state before fit is called: a compiled model, fresh callbacks.
IdleTrain ==
  /\ epoch = 0 /\ logs = NoLogs
  /\ lr = AdamLearningRate
  /\ weights = 0
  /\ stop_training = FALSE
  /\ checkpoint_callback = [best |-> Inf, saved_weights |-> 0]
  /\ reduce_lr_callback = [best |-> Inf, wait |-> 0, best_epoch |-> 0]
  /\ early_stopping_callback =
       [best |-> Inf, wait |-> 0, best_epoch |-> 0, best_weights |-> 0,
        stopped_epoch |-> 0]
  /\ history = [epoch |-> << >>, loss |-> << >>, val_loss |-> << >>]

\* ------------------------------------------------------------ SpecNormalize
Amplitudes == {-1, 0, 1}

InitNormalize ==
  /\ pc = "normalize"
  /\ raised = ""
  /\ \E d \in 0..MaxDuration, s \in 1..MaxRate :
       \E f \in {Unreadable} \cup
                { [readable |-> TRUE, samples |-> w] : w \in SeqsUpTo(Amplitudes, MaxLen) } :
         call = [file |-> f, duration |-> d, sr |-> s]
  /\ ret = [kind |-> "pending"]
  /\ IdleLoad /\ IdleEncode /\ IdlePrepare /\ IdleSplit /\ IdleModel /\ IdleTrain

Normalize ==
  /\ pc = "normalize"
  /\ ret' = load_and_pad_audio(call.file, call.duration, call.sr)
  /\ pc' = "normalized"
  /\ UNCHANGED << raised, call, root, loadVars, encVars, prepVars, splitVars, model, trainVars >>

NextNormalize == Normalize

SpecNormalize == InitNormalize /\ [][NextNormalize]_vars

\* ------------------------------------------------------------------ the run
Init ==
  /\ pc = "start"
  /\ raised = ""
  /\ IdleNormalize
  /\ root \in Roots
  /\ ci = 1 /\ fi = 1
  /\ audios = << >> /\ labels = << >> /\ class_labels = << >>
  /\ origin = << >>
  /\ IdleEncode /\ IdlePrepare /\ IdleSplit /\ IdleModel /\ IdleTrain

\* load_audio_files, up to the loops: the empty lists and the directory filter.
LoadAudioFilesStart ==
  /\ pc = "start"
  /\ audios' = << >>
  /\ labels' = << >>
  /\ class_labels' =
       LET dirs == { i \in 1..Len(root) : root[i].isdir }
       IN  [ k \in 1..Cardinality(dirs) |->
               root[CHOOSE i \in dirs : Cardinality({ j \in dirs : j < i }) = k - 1].name ]
  /\ ci' = 1 /\ fi' = 1
  /\ pc' = "load"
  /\ UNCHANGED << raised, normVars, root, origin, encVars, prepVars, splitVars, model, trainVars >>

\* One pass of the inner loop body: load, skip on None, else extract and append.
LoadFile ==
  /\ pc = "load"
  /\ ci <= Len(class_labels)
  /\ fi <= Len(ListClassDir(root, class_labels[ci]))
  /\ LET label == class_labels[ci]
         file == ListClassDir(root, label)[fi]
         r == load_and_pad_audio(file, SC.AUDIO_CLIP_DURATION, SC.AUDIO_SAMPLE_RATE)
     IN  IF r.kind = "raise"
         THEN /\ pc' = "raised"
              /\ raised' = "load_audio_files"
              /\ UNCHANGED << fi, audios, labels, origin, trainVars >>
         ELSE IF r.kind = "none"
         THEN /\ fi' = fi + 1
              /\ UNCHANGED << pc, raised, audios, labels, origin, trainVars >>
         ELSE /\ audios' = Append(audios, log_mel_spectrogram(r.audio))
              /\ labels' = Append(labels, label)
              /\ origin' = Append(origin, [dir |-> label, file |-> fi])
              /\ fi' = fi + 1
              /\ UNCHANGED << pc, raised, trainVars >>
  /\ UNCHANGED << normVars, root, ci, class_labels, encVars, prepVars, splitVars, model, trainVars >>

\* The inner loop is exhausted: on to the next class directory.
NextClass ==
  /\ pc = "load"
  /\ ci <= Len(class_labels)
  /\ fi > Len(ListClassDir(root, class_labels[ci]))
  /\ ci' = ci + 1
  /\ fi' = 1
  /\ UNCHANGED << pc, raised, normVars, root, audios, labels, class_labels,
                  origin, encVars, prepVars, splitVars, model, trainVars >>

\* return audios, labels, class_labels
LoadAudioFilesReturn ==
  /\ pc = "load"
  /\ ci > Len(class_labels)
  /\ pc' = "encode"
  /\ UNCHANGED << raised, normVars, root, loadVars, encVars, prepVars, splitVars, model, trainVars >>

\* le.fit_transform(labels); to_categorical(labels_encoded).  With no labels
\* to_categorical takes the maximum of an empty array, which raises.
EncodeLabels ==
  /\ pc = "encode"
  /\ IF Len(labels) = 0
     THEN /\ pc' = "raised"
          /\ raised' = "to_categorical"
          /\ UNCHANGED encVars
     ELSE /\ le_classes' = SortedUnique(labels)
          /\ labels_categorical' = to_categorical(fit_transform(labels))
          /\ pc' = "pad"
          /\ UNCHANGED raised
  /\ UNCHANGED << normVars, root, loadVars, prepVars, splitVars, model, trainVars >>

\* max_length, max_height, audios_padded.  max() of an empty sequence raises.
PadSpectrograms ==
  /\ pc = "pad"
  /\ IF Len(audios) = 0
     THEN /\ pc' = "raised"
          /\ raised' = "max"
          /\ UNCHANGED audios_padded
     ELSE /\ audios_padded' = PadAll(audios)
          /\ pc' = "prepare"
          /\ UNCHANGED raised
  /\ UNCHANGED << normVars, root, loadVars, encVars, prepared_spectrograms,
                  splitVars, model, trainVars >>

\* prepared_spectrograms = prepare_spectrograms(audios_padded)
PrepareSpectrograms ==
  /\ pc = "prepare"
  /\ prepared_spectrograms' = prepare_spectrograms(audios_padded, TargetSizeDefault)
  /\ pc' = "split"
  /\ UNCHANGED << raised, normVars, root, loadVars, encVars, audios_padded,
                  splitVars, model, trainVars >>

\* train_test_split(prepared_spectrograms, labels_categorical, test_size=0.2,
\* random_state=seed), its index arrays stored in `split` (first) or `resplit`
\* (again).  An empty train part raises ValueError.
TrainTestSplit(seed, again) ==
  LET n == Len(prepared_spectrograms)
  IN  IF NumTrain(n) = 0
      THEN /\ pc' = "raised"
           /\ raised' = "train_test_split"
           /\ UNCHANGED splitVars
      ELSE \E perm \in SeededPermutations(rng, seed, n) :
             /\ rng' = [rng EXCEPT ![seed] = perm]
             /\ IF again
                THEN /\ resplit' = [seed |-> seed] @@ SplitIndices(perm, n)
                     /\ pc' = "resplit"
                     /\ UNCHANGED split
                ELSE /\ split' = [seed |-> seed] @@ SplitIndices(perm, n)
                     /\ pc' = "build"
                     /\ UNCHANGED resplit
             /\ UNCHANGED raised

\* X_train, X_test, y_train, y_test = train_test_split(..., random_state=42)
SplitData ==
  /\ pc = "split"
  /\ TrainTestSplit(random_state, FALSE)
  /\ UNCHANGED << normVars, root, loadVars, encVars, prepVars, model, trainVars >>

\* input_shape = (...); model = build_model(input_shape, num_classes=len(class_labels))
BuildModel ==
  /\ pc = "build"
  /\ model' = [ input_shape |-> << SC.MODEL_INPUT_IMAGE_WIDTH,
                                   SC.MODEL_INPUT_IMAGE_HEIGHT,
                                   SC.MODEL_INPUT_IMAGE_CHANNELS >>,
                num_classes |-> Len(class_labels) ]
  /\ pc' = "built"
  /\ UNCHANGED << raised, normVars, root, loadVars, encVars, prepVars, splitVars, trainVars >>

\* The four arrays train_test_split returned.
X_train == [ i \in 1..Len(split.train) |-> prepared_spectrograms[split.train[i]] ]
X_test == [ i \in 1..Len(split.test) |-> prepared_spectrograms[split.test[i]] ]
y_train == [ i \in 1..Len(split.train) |-> labels_categorical[split.train[i]] ]
y_test == [ i \in 1..Len(split.test) |-> labels_categorical[split.test[i]] ]

Next ==
  \/ LoadAudioFilesStart
  \/ LoadFile
  \/ NextClass
  \/ LoadAudioFilesReturn
  \/ EncodeLabels
  \/ PadSpectrograms
  \/ PrepareSpectrograms
  \/ SplitData
  \/ BuildModel

Spec == Init /\ [][Next]_vars

\* -------------------------------------------------------------- SpecPrepare
\* A feature matrix of shape (h, w) with non-zero entries.
Matrix(h, w) == [ r \in 1..h |-> [ c \in 1..w |-> 10 * r + c ] ]

InitPrepare ==
  /\ pc = "pad"
  /\ raised = ""
  /\ IdleNormalize
  /\ root = << >>
  /\ ci = 1 /\ fi = 1
  /\ audios \in SeqsUpTo({ Matrix(h, w) : h \in 1..MaxDim, w \in 1..MaxDim }, MaxAudios)
  /\ labels = << >> /\ class_labels = << >>
  /\ origin = << >>
  /\ IdleEncode /\ IdlePrepare /\ IdleSplit /\ IdleModel /\ IdleTrain

NextPrepare ==
  \/ PadSpectrograms
  \/ PrepareSpectrograms

SpecPrepare == InitPrepare /\ [][NextPrepare]_vars

\* ---------------------------------------------------------------- SpecSplit
\* n (tensor, target) pairs, told apart by their position.
InitSplit ==
  /\ pc = "split"
  /\ raised = ""
  /\ IdleNormalize /\ IdleLoad
  /\ le_classes = << >>
  /\ audios_padded = << >>
  /\ \E n \in 0..MaxSplit :
       /\ prepared_spectrograms = [ i \in 1..n |-> << << << i >> >> >> ]
       /\ labels_categorical = [ i \in 1..n |-> [ j \in 1..n |-> IF j = i THEN 1 ELSE 0 ] ]
  /\ IdleSplit /\ IdleModel /\ IdleTrain

\* The first call, with any seed.
SplitFirst ==
  /\ pc = "split"
  /\ \E seed \in Seeds : TrainTestSplit(seed, FALSE)
  /\ UNCHANGED << normVars, root, loadVars, encVars, prepVars, model, trainVars >>

\* A second call on the same input, with any seed.
SplitAgain ==
  /\ pc = "build"
  /\ \E seed \in Seeds : TrainTestSplit(seed, TRUE)
  /\ UNCHANGED << normVars, root, loadVars, encVars, prepVars, model, trainVars >>

NextSplit ==
  \/ SplitFirst
  \/ SplitAgain

SpecSplit == InitSplit /\ [][NextSplit]_vars

\* ---------------------------------------------------------------- model.fit
\* The call of model.fit: a compiled model, fresh callbacks, no epoch trained.
InitTrain ==
  /\ pc = "train"
  /\ raised = ""
  /\ IdleNormalize /\ IdleLoad /\ IdleEncode /\ IdlePrepare /\ IdleSplit
  /\ IdleModel /\ IdleTrain

pipelineVars == << raised, normVars, root, loadVars, encVars, prepVars, splitVars, model >>

\* One more epoch is trained and evaluated, unless the epochs are used up or
\* a callback asked to stop.
TrainEpoch ==
  /\ pc = "train"
  /\ epoch < EpochsScaled
  /\ ~stop_training
  /\ \E l \in EpochLogs : logs' = l
  /\ epoch' = epoch + 1
  /\ weights' = epoch + 1
  /\ pc' = "checkpoint"
  /\ UNCHANGED << pipelineVars, lr, stop_training, callbackVars, history >>

\* callbacks.on_epoch_end, in the order of the callbacks list: the checkpoint,
CheckpointCallback ==
  /\ pc = "checkpoint"
  /\ checkpoint_callback' =
       ModelCheckpoint_on_epoch_end(checkpoint_callback, logs.val_loss, weights)
  /\ pc' = "reduce_lr"
  /\ UNCHANGED << pipelineVars, fitVars, reduce_lr_callback,
                  early_stopping_callback, history >>

\* the plateau callback,
ReduceLRCallback ==
  /\ pc = "reduce_lr"
  /\ LET r == ReduceLROnPlateau_on_epoch_end(reduce_lr_callback, logs.val_loss, lr, epoch)
     IN  /\ reduce_lr_callback' = r.cb
         /\ lr' = r.lr
  /\ pc' = "early_stopping"
  /\ UNCHANGED << pipelineVars, epoch, logs, weights, stop_training,
                  checkpoint_callback, early_stopping_callback, history >>

\* early stopping,
EarlyStoppingCallback ==
  /\ pc = "early_stopping"
  /\ LET r == EarlyStopping_on_epoch_end(early_stopping_callback, logs.val_loss,
                                         weights, epoch)
     IN  /\ early_stopping_callback' = r.cb
         /\ stop_training' = r.stop_training
         /\ weights' = r.weights
  /\ pc' = "history"
  /\ UNCHANGED << pipelineVars, epoch, logs, lr, checkpoint_callback,
                  reduce_lr_callback, history >>

\* and the History callback fit adds after the given ones.
HistoryCallback ==
  /\ pc = "history"
  /\ history' = History_on_epoch_end(history, epoch, logs)
  /\ pc' = "train"
  /\ UNCHANGED << pipelineVars, fitVars, callbackVars >>

\* The epoch loop is left and fit returns the history.
FitReturn ==
  /\ pc = "train"
  /\ (epoch >= EpochsScaled \/ stop_training)
  /\ pc' = "fitted"
  /\ UNCHANGED << pipelineVars, trainVars >>

NextTrain ==
  \/ TrainEpoch
  \/ CheckpointCallback
  \/ ReduceLRCallback
  \/ EarlyStoppingCallback
  \/ HistoryCallback
  \/ FitReturn

SpecTrain == InitTrain /\ [][NextTrain]_vars

\* The epoch loop never pauses: fit runs it to its end.
SpecTrainFair == SpecTrain /\ WF_vars(NextTrain)

\* The state of the training run.
TrainingState ==
  IF pc # "fitted" THEN "Running"
  ELSE IF stop_training THEN "EarlyStopped" ELSE "Completed"

\* ------------------------------------------------------------------- claims
\* C1: a successful load_and_pad_audio returns exactly duration * sr samples,
\* whatever the length of the loaded waveform.
C1_ExactLength ==
  (pc = "normalized" /\ ret.kind = "ok") =>
    Len(ret.audio) = call.duration * call.sr

\* C1 witness: a waveform longer than duration * sr > 0 has been normalised.
C1_Witness ==
  /\ pc = "normalized"
  /\ ret.kind = "ok"
  /\ call.duration * call.sr > 0
  /\ Len(call.file.samples) > call.duration * call.sr

\* C2: the signal stays centred: padding puts (req - n) \div 2 zeros in front and
\* the rest behind, trimming keeps [start, start + req) with
\* start = (n - req) \div 2, and an exact-length waveform is returned unchanged.
C2_Centred ==
  (pc = "normalized" /\ ret.kind = "ok") =>
    LET w == call.file.samples
        n == Len(w)
        req == call.duration * call.sr
        out == ret.audio
    IN  /\ n < req =>
             LET pad_left == (req - n) \div 2
                 pad_right == req - n - pad_left
             IN  /\ Len(out) = pad_left + n + pad_right
                 /\ pad_right - pad_left \in {0, 1}
                 /\ \A i \in 1..pad_left : out[i] = 0
                 /\ \A i \in 1..n : out[pad_left + i] = w[i]
                 /\ \A i \in 1..pad_right : out[pad_left + n + i] = 0
        /\ n > req =>
             LET start == (n - req) \div 2
             IN  /\ Len(out) = req
                 /\ \A i \in 1..req : out[i] = w[start + i]
        /\ n = req => out = w

\* C2 witness: an odd amount of padding was split around a non-empty signal.
C2_Witness ==
  /\ pc = "normalized"
  /\ ret.kind = "ok"
  /\ Len(call.file.samples) > 0
  /\ (call.duration * call.sr - Len(call.file.samples)) % 2 = 1
  /\ call.duration * call.sr > Len(call.file.samples)

\* ----------------------------------------------------- claims on the run
\* The readable files of the corpus, by class directory and position.
ReadableFiles ==
  { [dir |-> root[e].name, file |-> k] :
      << e, k >> \in { x \in (1..Len(root)) \X (1..MaxFiles) :
                         /\ root[x[1]].isdir
                         /\ x[2] <= Len(root[x[1]].files)
                         /\ root[x[1]].files[x[2]].readable } }

ClassDirNames == { root[e].name : e \in { i \in 1..Len(root) : root[i].isdir } }

\* load_audio_files has returned.
LoaderReturned ==
  \/ pc \in { "encode", "pad", "prepare", "split", "build", "built" }
  \/ pc = "raised" /\ raised # "load_audio_files"

\* The 0-based column of the 1 in a one-hot row.
HotIndex(v) == (CHOOSE j \in 1..Len(v) : v[j] = 1) - 1

\* C3: an unreadable file never aborts load_audio_files: no exception leaves
\* it, and it returns one sample per readable file of every class directory.
C3_SkipNotAbort ==
  /\ raised # "load_audio_files"
  /\ LoaderReturned =>
       /\ Len(audios) = Cardinality(ReadableFiles)
       /\ Len(labels) = Len(audios)
       /\ Len(origin) = Len(audios)
       /\ Range(origin) = ReadableFiles

\* C3 witness: the loader returned after an unreadable file that was followed
\* by a readable one in the same directory.
C3_Witness ==
  /\ pc = "encode"
  /\ \E e \in 1..Len(root) : \E k, k2 \in 1..Len(root[e].files) :
       /\ k < k2
       /\ ~root[e].files[k].readable
       /\ root[e].files[k2].readable
       /\ [dir |-> root[e].name, file |-> k2] \in Range(origin)

\* C4 (the claim): with no class subdirectory under the root, load_audio_files
\* fails itself and does not return.
C4_EmptyCorpusFails ==
  (ClassDirNames = {} /\ pc \notin { "start", "load" }) =>
    (pc = "raised" /\ raised = "load_audio_files")

\* C5 (the claim): every target vector is as wide as the list of class
\* directories, which is the output width given to build_model.
C5_TargetWidth ==
  \A i \in 1..Len(labels_categorical) :
    Len(labels_categorical[i]) = Len(class_labels)

\* C6 (the claim): the column of the 1 in a sample's target vector is the
\* position of the sample's label in class_labels; stated here for the corpora
\* in which every class directory contributed a sample.
C6_RoundTrip ==
  Range(labels) = Range(class_labels) =>
    \A i \in 1..Len(labels_categorical) :
      HotIndex(labels_categorical[i]) = IndexOf(class_labels, labels[i])

\* C9: tensors, target vectors and loaded samples are equally many, one per
\* readable file, and the i-th target vector decodes (through le.classes_) to
\* the directory the i-th sample's file was read from, whose spectrogram the
\* i-th tensor is prepared from.
C9_Pairing ==
  pc \in { "split", "build", "built" } =>
    /\ Len(prepared_spectrograms) = Len(audios)
    /\ Len(labels_categorical) = Len(audios)
    /\ Len(audios) = Cardinality(ReadableFiles)
    /\ \A i \in 1..Len(audios) :
         /\ origin[i] \in ReadableFiles
         /\ le_classes[HotIndex(labels_categorical[i]) + 1] = origin[i].dir
         /\ audios[i] =
              log_mel_spectrogram(
                PadOrTrim(ListClassDir(root, origin[i].dir)[origin[i].file].samples,
                          SC.AUDIO_SAMPLE_RATE * SC.AUDIO_CLIP_DURATION))
         /\ LET resized == tf_image_resize(audios[i], TargetSizeDefault)
            IN  \A y \in 1..Len(prepared_spectrograms[i]) :
                  \A x \in 1..Len(prepared_spectrograms[i][y]) :
                    prepared_spectrograms[i][y][x][1] = resized[y][x][1]

\* C9 witness: two classes in unsorted listing order, an unreadable file, and
\* samples of both classes prepared.
C9_Witness ==
  /\ pc = "built"
  /\ Len(class_labels) = 2
  /\ Rank(class_labels[1]) > Rank(class_labels[2])
  /\ Cardinality(Range(labels)) = 2
  /\ \E e \in 1..Len(root) : \E k \in 1..Len(root[e].files) : ~root[e].files[k].readable

\* ------------------------------------------------- claims on SpecPrepare
TensorShape(t) == << Len(t), Len(t[1]), Len(t[1][1]) >>

\* C7: every prepared tensor has the shape configured for the classifier input
\* and its channel slices are equal.
C7_TensorShape ==
  \A i \in 1..Len(prepared_spectrograms) :
    LET t == prepared_spectrograms[i]
    IN  /\ TensorShape(t) = << SC.MODEL_INPUT_IMAGE_HEIGHT,
                               SC.MODEL_INPUT_IMAGE_WIDTH,
                               SC.MODEL_INPUT_IMAGE_CHANNELS >>
        /\ \A y \in 1..Len(t) :
             /\ Len(t[y]) = SC.MODEL_INPUT_IMAGE_WIDTH
             /\ \A x \in 1..Len(t[y]) :
                  /\ Len(t[y][x]) = SC.MODEL_INPUT_IMAGE_CHANNELS
                  /\ \A ch \in 1..Len(t[y][x]) : t[y][x][ch] = t[y][x][1]

\* C7 witness: tensors were prepared from matrices of two different shapes.
C7_Witness ==
  /\ pc = "split"
  /\ Len(prepared_spectrograms) >= 2
  /\ \E i, j \in 1..Len(audios) : Shape(audios[i]) # Shape(audios[j])

\* The largest height and width over the corpus.
CommonShape ==
  << MaxOf({ Height(audios[i]) : i \in 1..Len(audios) }),
     MaxOf({ Width(audios[i]) : i \in 1..Len(audios) }) >>

\* audios[i] with zeros added below and to the right, up to CommonShape.
ExpectedPadded(i) ==
  [ r \in 1..CommonShape[1] |->
      [ c \in 1..CommonShape[2] |->
          IF r <= Height(audios[i]) /\ c <= Width(audios[i]) THEN audios[i][r][c] ELSE 0 ] ]

\* C8: nothing is resized before the padding; after it every matrix has the
\* common shape, its entries in place in the top-left corner and zeros
\* elsewhere; the resized tensors are those of the padded matrices.
C8_PadBeforeResize ==
  /\ pc = "pad" => prepared_spectrograms = << >>
  /\ pc \in { "prepare", "split" } =>
       /\ Len(audios_padded) = Len(audios)
       /\ \A i \in 1..Len(audios) :
            /\ Shape(audios_padded[i]) = CommonShape
            /\ audios_padded[i] = ExpectedPadded(i)
  /\ pc = "split" =>
       /\ Len(prepared_spectrograms) = Len(audios)
       /\ \A i \in 1..Len(audios) :
            LET resized == tf_image_resize(ExpectedPadded(i), TargetSizeDefault)
            IN  \A y \in 1..TargetSizeDefault[1] : \A x \in 1..TargetSizeDefault[2] :
                  prepared_spectrograms[i][y][x][1] = resized[y][x][1]

\* C8 witness: a matrix both lower and narrower than the common shape was
\* padded and resized.
C8_Witness ==
  /\ pc = "split"
  /\ \E i \in 1..Len(audios) :
       /\ Height(audios[i]) < CommonShape[1]
       /\ Width(audios[i]) < CommonShape[2]

\* --------------------------------------------------- claims on SpecSplit
\* The two index arrays hold every input position exactly once.
IsPartition(s, n) ==
  LET all == s.test \o s.train
  IN  /\ Len(all) = n
      /\ \A i \in 1..n : Cardinality({ k \in 1..Len(all) : all[k] = i }) = 1

\* C10: the train and test parts are disjoint and cover every input position
\* once, and a second split of the same input with the same seed is the same.
C10_Partition ==
  /\ pc \in { "build", "resplit" } => IsPartition(split, Len(prepared_spectrograms))
  /\ pc = "resplit" =>
       /\ IsPartition(resplit, Len(prepared_spectrograms))
       /\ resplit.seed = split.seed => resplit = split

\* C10 witness: a second split with the same seed, both parts non-empty and
\* the input shuffled.
C10_Witness ==
  /\ pc = "resplit"
  /\ resplit.seed = split.seed
  /\ Len(split.test) >= 1
  /\ Len(split.train) >= 2
  /\ split.train[1] > split.train[2]

\* n * 0.2 rounded to the nearest integer (no n gives a tie), and rounded up.
RoundFifth(n) == (2 * n + 5) \div 10
CeilFifth(n) == CHOOSE k \in 0..n : 5 * k >= n /\ 5 * (k - 1) < n

\* C11 as stated: for n >= 2 the test part holds round(n * 0.2) samples and
\* the train part the other n - round(n * 0.2).
C11_RoundedSize ==
  LET n == Len(prepared_spectrograms)
  IN  (pc \in { "build", "resplit" } /\ n >= 2) =>
        /\ Len(split.test) = RoundFifth(n)
        /\ Len(split.train) = n - RoundFifth(n)

\* C11: for n >= 2 the test part holds ceil(n * 0.2) samples and the train
\* part the other n - ceil(n * 0.2); for n = 10 the test part has 2.
C11_CeilSize ==
  LET n == Len(prepared_spectrograms)
  IN  /\ (pc \in { "build", "resplit" } /\ n >= 2) =>
            /\ Len(split.test) = CeilFifth(n)
            /\ Len(split.train) = n - CeilFifth(n)
            /\ Len(X_test) = CeilFifth(n) /\ Len(y_test) = CeilFifth(n)
            /\ Len(X_train) = n - CeilFifth(n) /\ Len(y_train) = n - CeilFifth(n)
      /\ NumTest(10) = 2 /\ NumTrain(10) = 8

\* C11 witness: a split of two samples, where rounding up and rounding to
\* the nearest differ, left one sample on each side.
C11_Witness ==
  /\ pc = "build"
  /\ Len(prepared_spectrograms) = 2
  /\ Len(split.test) = 1 /\ Len(split.train) = 1
  /\ RoundFifth(2) = 0

\* --------------------------------------------------- claims on SpecTrain
\* The checkpoint callback of the last epoch trained has run.
CheckpointDone == pc \in { "reduce_lr", "early_stopping", "history", "train", "fitted" }
                  /\ epoch >= 1

\* The evaluation losses of the epochs before the last one trained, and of
\* all epochs trained.
EarlierValLosses == IF pc = "history" THEN history.val_loss
                    ELSE IF epoch >= 1 /\ Len(history.val_loss) = epoch
                         THEN SubSeq(history.val_loss, 1, epoch - 1)
                         ELSE history.val_loss
AllValLosses ==
  IF pc \in { "checkpoint", "reduce_lr", "early_stopping", "history" }
  THEN Append(history.val_loss, logs.val_loss)
  ELSE history.val_loss

\* The last epoch's evaluation loss is strictly below that of every earlier epoch.
StrictlyLowest ==
  \A k \in 1..Len(EarlierValLosses) : logs.val_loss < EarlierValLosses[k]

\* The earliest epoch with the lowest evaluation loss of v.
EarliestMinEpoch(v) ==
  CHOOSE e \in 1..Len(v) :
    /\ \A k \in 1..Len(v) : v[e] <= v[k]
    /\ \A k \in 1..(e - 1) : v[k] > v[e]

\* C12: the checkpoint is written at the end of an epoch exactly when that
\* epoch's evaluation loss is strictly below the loss of every earlier epoch,
\* so it always holds the weights of the earliest epoch with the lowest loss.
C12_CheckpointStrict ==
  CheckpointDone =>
    /\ (checkpoint_callback.saved_weights = epoch) <=> StrictlyLowest
    /\ checkpoint_callback.saved_weights = EarliestMinEpoch(AllValLosses)
    /\ checkpoint_callback.best = AllValLosses[EarliestMinEpoch(AllValLosses)]

\* C12 witness: an epoch repeated the lowest loss seen and the checkpoint was
\* left with the earlier epoch.
C12_Witness ==
  /\ pc = "reduce_lr"
  /\ epoch >= 3
  /\ logs.val_loss = checkpoint_callback.best
  /\ checkpoint_callback.saved_weights = epoch - 1
  /\ ~StrictlyLowest

\* The plateau callback of the last epoch trained has run.
PlateauDone == pc \in { "early_stopping", "history", "train", "fitted" } /\ epoch >= 1

\* The rate and the plateau counter after the epochs with evaluation losses
\* v, were an improvement a loss strictly below every earlier one and were
\* every plateau of patience_lr epochs answered with max(lr * factor, min_lr)
\* and a counter restart.
RECURSIVE StrictPlateau(_)
StrictPlateau(v) ==
  IF v = << >> THEN [lr |-> AdamLearningRate, wait |-> 0]
  ELSE LET k == Len(v)
           p == StrictPlateau(SubSeq(v, 1, k - 1))
       IN  IF \A j \in 1..(k - 1) : v[k] < v[j]
           THEN [lr |-> p.lr, wait |-> 0]
           ELSE IF p.wait + 1 >= PatienceLrScaled
                THEN [lr |-> Max((p.lr * factor[1]) \div factor[2], min_lr), wait |-> 0]
                ELSE [lr |-> p.lr, wait |-> p.wait + 1]

\* C13 as stated: after patience_lr consecutive epochs without a strictly
\* lower loss the rate becomes max(lr * factor, min_lr) and the counter 0, and
\* the rate changes at no other epoch.
C13_PlateauStrict ==
  PlateauDone =>
    /\ lr = StrictPlateau(AllValLosses).lr
    /\ reduce_lr_callback.wait = StrictPlateau(AllValLosses).wait

\* The same, with an improvement being a loss below the plateau policy's best
\* by more than min_delta, and with a plateau at a rate of min_lr changing
\* nothing: the counter keeps growing.
RECURSIVE DeltaPlateau(_)
DeltaPlateau(v) ==
  IF v = << >> THEN [lr |-> AdamLearningRate, wait |-> 0, best |-> Inf]
  ELSE LET k == Len(v)
           p == DeltaPlateau(SubSeq(v, 1, k - 1))
       IN  IF v[k] + min_delta < p.best
           THEN [lr |-> p.lr, wait |-> 0, best |-> v[k]]
           ELSE IF p.wait + 1 >= PatienceLrScaled /\ p.lr > min_lr
                THEN [lr |-> Max((p.lr * factor[1]) \div factor[2], min_lr),
                      wait |-> 0, best |-> p.best]
                ELSE [lr |-> p.lr, wait |-> p.wait + 1, best |-> p.best]

\* C13: once the evaluation loss has not gone below the plateau policy's best
\* by more than min_delta for patience_lr consecutive epochs and the rate is
\* above min_lr, the rate becomes max(lr * factor, min_lr) and the counter 0;
\* the rate changes at no other epoch, and no callback but this one changes it.
C13_PlateauDelta ==
  /\ PlateauDone =>
       /\ lr = DeltaPlateau(AllValLosses).lr
       /\ reduce_lr_callback.wait = DeltaPlateau(AllValLosses).wait
       /\ reduce_lr_callback.best = DeltaPlateau(AllValLosses).best
  /\ pc \in { "checkpoint", "reduce_lr" } => lr = DeltaPlateau(history.val_loss).lr

\* C13 witness: the rate has been reduced twice, the second time at the end
\* of an epoch that set no best for the plateau policy, and the counter restarted.
C13_Witness ==
  /\ pc = "early_stopping"
  /\ lr = ReducedLr(ReducedLr(AdamLearningRate))
  /\ lr < DeltaPlateau(history.val_loss).lr
  /\ reduce_lr_callback.wait = 0
  /\ reduce_lr_callback.best_epoch < epoch

\* Early stopping has run for the last epoch trained.
EarlyStoppingDone == pc \in { "history", "train", "fitted" } /\ epoch >= 1

\* The number of epochs at the end of v whose loss was not strictly below
\* that of every earlier epoch.
StaleRun(v) == IF v = << >> THEN 0 ELSE Len(v) - EarliestMinEpoch(v)

\* A loss, a lower one, and the lower one again for patience_stop epochs.
FlatScenario == << 3 >> \o [ i \in 1..(PatienceStopScaled + 1) |-> 0 ]

\* C14: training is stopped at the end of the first epoch that closes
\* patience_stop consecutive epochs without a strictly lower evaluation loss:
\* no further epoch is trained, the run ends stopped early, and the model has
\* the weights of the checkpoint, those of the earliest epoch with the lowest
\* loss, not those of the last epoch.
C14_StopAndRestore ==
  /\ EarlyStoppingDone =>
       /\ stop_training <=> StaleRun(AllValLosses) >= PatienceStopScaled
       /\ StaleRun(AllValLosses) <= PatienceStopScaled
       /\ stop_training =>
            /\ weights = checkpoint_callback.saved_weights
            /\ weights = EarliestMinEpoch(AllValLosses)
            /\ weights = epoch - PatienceStopScaled
            /\ early_stopping_callback.stopped_epoch = epoch
       /\ ~stop_training => weights = epoch
  /\ (pc = "train" /\ stop_training) => ~ENABLED TrainEpoch
  /\ (pc = "fitted" /\ stop_training) => TrainingState = "EarlyStopped"
  /\ (pc = "fitted" /\ history.val_loss = FlatScenario) =>
       TrainingState = "EarlyStopped" /\ weights = 2

\* C14 witness: the run over the flat scenario has ended with the weights of
\* the first epoch of the lower loss.
C14_Witness ==
  /\ pc = "fitted"
  /\ history.val_loss = FlatScenario
  /\ stop_training
  /\ weights = 2
  /\ epoch = PatienceStopScaled + 2

\* C15: a run trains at most the configured number of epochs and then ends,
\* either stopped early, when the last epoch trained closed patience_stop
\* epochs without a strictly lower loss, or completed, when all epochs were
\* trained and that never happened; once ended, nothing more happens.
C15_EndsOnce ==
  /\ [](/\ epoch <= EpochsScaled
        /\ pc = "fitted" =>
             /\ TrainingState \in { "EarlyStopped", "Completed" }
             /\ TrainingState = "EarlyStopped" <=>
                  StaleRun(history.val_loss) >= PatienceStopScaled
             /\ TrainingState = "Completed" <=>
                  /\ epoch = EpochsScaled
                  /\ \A k \in 1..epoch :
                       StaleRun(SubSeq(history.val_loss, 1, k)) < PatienceStopScaled
             /\ Len(history.epoch) = epoch
             /\ ~ENABLED NextTrain
        /\ pc # "fitted" => TrainingState = "Running" /\ ENABLED NextTrain)
  /\ <>(pc = "fitted")

\* C15 witness: a run that ended completed, all epochs trained, after a
\* plateau shorter than patience_stop.
C15_Witness ==
  /\ pc = "fitted"
  /\ TrainingState = "Completed"
  /\ epoch = EpochsScaled
  /\ early_stopping_callback.wait = PatienceStopScaled - 1

\* C16: the history grows by one record at the end of each epoch, holding the
\* epoch's number and the losses it reported: after k epochs it has k records
\* in increasing epoch order, and no step changes or removes a record.
C16_AppendOnly ==
  /\ [](pc \in { "train", "fitted" } =>
          /\ Len(history.epoch) = epoch
          /\ Len(history.loss) = epoch
          /\ Len(history.val_loss) = epoch
          /\ \A k \in 1..epoch : history.epoch[k] = k)
  /\ [][LET n == Len(history.epoch)
        IN  /\ \A k \in 1..n :
                 /\ history'.epoch[k] = history.epoch[k]
                 /\ history'.loss[k] = history.loss[k]
                 /\ history'.val_loss[k] = history.val_loss[k]
            /\ Len(history'.epoch) \in { n, n + 1 }
            /\ Len(history'.loss) = Len(history'.epoch)
            /\ Len(history'.val_loss) = Len(history'.epoch)
            /\ Len(history'.epoch) = n + 1 =>
                 /\ pc = "history"
                 /\ history'.epoch[n + 1] = epoch
                 /\ history'.loss[n + 1] = logs.loss
                 /\ history'.val_loss[n + 1] = logs.val_loss]_vars

\* C16 witness: a run stopped early and restored older weights; the history
\* has one record per epoch trained, the last ones unlike the first.
C16_Witness ==
  /\ pc = "fitted"
  /\ stop_training
  /\ weights < epoch
  /\ Len(history.epoch) = epoch
  /\ history.loss[epoch] # history.loss[1]
  /\ history.val_loss[epoch] # history.val_loss[1]

\* What the three callbacks made of the last epoch trained: the checkpoint was
\* written, the early-stop counter restarted, the plateau policy set its best.
CheckpointSaved == checkpoint_callback.saved_weights = epoch
EarlyStopReset == early_stopping_callback.wait = 0
PlateauCounted == reduce_lr_callback.best_epoch = epoch

\* C17 as stated: the three callbacks agree; each takes an epoch for an
\* improvement exactly when its loss is strictly below every earlier one.
C17_OneImprovement ==
  pc = "history" =>
    /\ CheckpointSaved <=> StrictlyLowest
    /\ EarlyStopReset <=> StrictlyLowest
    /\ PlateauCounted <=> StrictlyLowest

\* C17: the checkpoint is written exactly when the early-stop counter
\* restarts, namely when the epoch's loss is strictly below every earlier one;
\* the plateau policy takes the epoch for an improvement exactly when the
\* loss is below its own best by more than min_delta, which happens only at
\* epochs where the other two act as well.
C17_TwoAgree ==
  pc = "history" =>
    /\ CheckpointSaved <=> StrictlyLowest
    /\ EarlyStopReset <=> StrictlyLowest
    /\ early_stopping_callback.best_epoch = checkpoint_callback.saved_weights
    /\ PlateauCounted <=>
         logs.val_loss + min_delta < DeltaPlateau(history.val_loss).best
    /\ PlateauCounted => StrictlyLowest

\* C17 witness: an epoch with a loss below every earlier one, though by no
\* more than min_delta: the checkpoint was written and the early-stop counter
\* restarted, and the plateau counter grew.
C17_Witness ==
  /\ pc = "history"
  /\ epoch >= 2
  /\ StrictlyLowest
  /\ CheckpointSaved /\ EarlyStopReset
  /\ ~PlateauCounted
  /\ reduce_lr_callback.wait >= 1

\* C18: the learning rate stays between min_lr and the rate training started
\* with, no step raises it, and at min_lr it stays.
C18_LrBounded ==
  /\ [](min_lr <= lr /\ lr <= AdamLearningRate)
  /\ [][/\ lr' <= lr
        /\ lr = min_lr => lr' = min_lr
        /\ lr' # lr => pc = "reduce_lr"]_vars

\* C18 witness: the rate reached min_lr and a further plateau left it there.
C18_Witness ==
  /\ pc = "early_stopping"
  /\ lr = min_lr
  /\ lr < AdamLearningRate
  /\ reduce_lr_callback.wait >= PatienceLrScaled

====
